---- MODULE Spec2Model ----
(***************************************************************************)
(* A model of git-absorb's driver (src/src/lib.rs): run, the tree patcher *)
(* apply_hunk_to_tree and the line-skip primitive skip_past_nth.          *)
(*                                                                         *)
(* Bytes are integers.  A blob and a path are sequences of bytes, a line  *)
(* is a sequence of bytes (with its trailing newline when it has one).    *)
(* The modules owned, stack and commute are not part of lib.rs; what the  *)
(* driver uses of them (Hunk.anchors, Diff.by_new, commute_diff_before,   *)
(* the shape of the discovered stack) is modelled from the repository's   *)
(* specification and marked so in the model map.                          *)
(***************************************************************************)
EXTENDS Integers, Sequences, FiniteSets, TLC

VARIABLES
    skip_call,      \* harness of skip_past_nth: its arguments and result
    tree_call,      \* harness of apply_hunk_to_tree: arguments and result
    commute_call,   \* harness of the commutation kernel
    \* what run reads: the configuration and the repository at its start
    dry_run,        \* config.dry_run
    stack,          \* the discovered stack, newest first: [id, summary, diff]
    index,          \* the index diff: a sequence of patches
    staged,         \* the absorbed file as the index holds it: [path, content]
    \* the repository
    head_ref,       \* the commit HEAD points to
    commits,        \* the commits written, in order: [id, parent, tree, message]
    store_writes,   \* the blobs and trees written
    \* run's locals
    pc,             \* where run is
    patch_i,        \* position of 'patch in index
    hunk_i,         \* position of 'hunk in index_patch.hunks
    stack_i,        \* position of 'commit in stack
    commuted_index_hunk,
    commuted_old_path,
    dest_commit,    \* None, or Some(position in stack)
    head_tree,
    head_commit,
    result,         \* "running", "ok" (Ok(())) or "err" (an Err returned)
    \* observers
    log,            \* the events logged by this execution
    trail,          \* the stack entries the current hunk's walk examined
    outcomes,       \* what became of each index hunk processed
    first_log,      \* the log of the execution before this one
    execution       \* 1 or 2: which execution on this repository

harness_vars == <<skip_call, tree_call, commute_call>>
input_vars == <<dry_run, stack, index, staged>>
repo_vars == <<head_ref, commits, store_writes>>
local_vars == <<pc, patch_i, hunk_i, stack_i, commuted_index_hunk,
                commuted_old_path, dest_commit, head_tree, head_commit, result>>
observer_vars == <<log, trail, outcomes, first_log, execution>>
driver_vars == <<input_vars, repo_vars, local_vars, observer_vars>>
vars == <<harness_vars, driver_vars>>

\* ------------------------------------------------------------------ bounds
MaxBuf == 4        \* longest byte buffer handed to skip_past_nth
MaxN == 3          \* largest n handed to skip_past_nth
MaxBlobLines == 3  \* most lines of a blob handed to apply_hunk_to_tree
MaxHunkLines == 2  \* most lines on one side of a hunk
MaxFileLines == 3  \* most lines of the file two hunks are commuted on
MaxStack == 2      \* most commits of the discovered stack

\* --------------------------------------------------------------- constants
NL == 10           \* b'\n'
SLASH == 47        \* "/", the separator of path segments

\* U+FFFD REPLACEMENT CHARACTER, as a code point and in UTF-8
ReplacementChar == <<65533>>
ReplacementUtf8 == <<239, 191, 189>>

Idle == [pc |-> "idle"]

\* the driver's variables while a harness runs
DriverIdle ==
    /\ dry_run = FALSE /\ stack = <<>> /\ index = <<>> /\ staged = Idle
    /\ head_ref = Idle /\ commits = <<>> /\ store_writes = {}
    /\ pc = "idle" /\ patch_i = 0 /\ hunk_i = 0 /\ stack_i = 0
    /\ commuted_index_hunk = Idle /\ commuted_old_path = <<>>
    /\ dest_commit = Idle /\ head_tree = Idle /\ head_commit = Idle
    /\ result = "idle"
    /\ log = <<>> /\ trail = <<>> /\ outcomes = <<>> /\ first_log = <<>>
    /\ execution = 0

\* ---------------------------------------------------------------- helpers
RECURSIVE SeqsUpTo(_, _)
\* all sequences over S of length at most n
SeqsUpTo(S, n) ==
    IF n = 0 THEN {<<>>}
    ELSE LET shorter == SeqsUpTo(S, n - 1)
         IN  shorter \cup {Append(s, x) : s \in {t \in shorter : Len(t) = n - 1}, x \in S}

Min(a, b) == IF a < b THEN a ELSE b
Max(a, b) == IF a > b THEN a ELSE b

\* the elements m..n of s that exist (s[m..n] of a slice, clamped)
Slice(s, m, n) ==
    LET lo == Max(m, 1)
        hi == Min(n, Len(s))
    IN  IF lo > hi THEN <<>> ELSE SubSeq(s, lo, hi)

\* -------------------------------------------------------- skip_past_nth
RECURSIVE Memchr(_, _, _)
\* memchr::Memchr::new(needle, haystack): the 0-based positions of needle in
\* haystack, ascending, from 0-based position `from` on
Memchr(needle, haystack, from) ==
    IF from >= Len(haystack) THEN <<>>
    ELSE IF haystack[from + 1] = needle
         THEN <<from>> \o Memchr(needle, haystack, from + 1)
         ELSE Memchr(needle, haystack, from + 1)

\* a slip: skips n matches instead of n - 1
SkipPastNthOffByOne(needle, haystack, n) ==
    IF n = 0 THEN 0
    ELSE LET m == Memchr(needle, haystack, 0)
         IN  IF Len(m) >= n + 1 THEN m[n + 1] + 1 ELSE Len(haystack)

\* fn skip_past_nth(needle, haystack, n) -> usize
SkipPastNth(needle, haystack, n) ==
    IF n = 0 THEN 0
    ELSE LET m == Memchr(needle, haystack, 0)          \* .fuse()
         IN  IF Len(m) >= n                            \* .skip(n - 1).next()
             THEN m[n] + 1                             \* .map(|x| x + 1)
             ELSE Len(haystack)                        \* .unwrap_or(len)

\* ------------------------------------------- harness of skip_past_nth
SkipBytes == {NL, 97}

InitSkip ==
    /\ skip_call \in [pc : {"call"}, buf : SeqsUpTo(SkipBytes, MaxBuf),
                      n : 0..MaxN, ret : {0}]
    /\ tree_call = Idle
    /\ commute_call = Idle
    /\ DriverIdle

SkipCall ==
    /\ skip_call.pc = "call"
    /\ skip_call' = [skip_call EXCEPT !.pc = "ret",
                        !.ret = SkipPastNth(NL, skip_call.buf, skip_call.n)]
    /\ UNCHANGED <<tree_call, commute_call, driver_vars>>

NextSkip == SkipCall

SpecSkip == InitSkip /\ [][NextSkip]_vars

\* the number of newlines among the first k bytes of buf
CountNL(buf, k) == Cardinality({i \in 1..Min(k, Len(buf)) : buf[i] = NL})

\* C8: skip_past_nth(b'\n', buf, 0) = 0, and for n >= 1 the prefix of buf of
\* the returned length ends right after the n-th newline and holds exactly n
\* newlines, or is the whole buffer when buf has fewer than n newlines.
C8_LineSkipPrimitive ==
    skip_call.pc = "ret" =>
        LET buf == skip_call.buf
            n   == skip_call.n
            r   == skip_call.ret
        IN  /\ n = 0 => r = 0
            /\ n >= 1 /\ CountNL(buf, Len(buf)) >= n =>
                   /\ r \in 1..Len(buf)
                   /\ buf[r] = NL
                   /\ CountNL(buf, r) = n
            /\ n >= 1 /\ CountNL(buf, Len(buf)) < n => r = Len(buf)

\* a call with n >= 2 that stops inside the buffer, after the n-th newline
C8_Witness ==
    /\ skip_call.pc = "ret"
    /\ skip_call.n >= 2
    /\ skip_call.ret < Len(skip_call.buf)
    /\ skip_call.ret > 0

\* ------------------------------------------------------------ owned model
\* owned::Block and owned::Hunk
Block(start, lines) == [start |-> start, lines |-> lines]
MkHunk(rstart, rlines, astart, alines) ==
    [removed |-> Block(rstart, rlines), added |-> Block(astart, alines)]

\* Hunk::anchors(): (old_start, old_len, new_start, new_len), derived from the
\* blocks
Anchors(hunk) ==
    <<hunk.removed.start, Len(hunk.removed.lines),
      hunk.added.start, Len(hunk.added.lines)>>

RECURSIVE Flatten(_)
\* the bytes of a sequence of lines, as successive write_all calls lay them
Flatten(lines) ==
    IF lines = <<>> THEN <<>> ELSE Head(lines) \o Flatten(Tail(lines))

\* ------------------------------------------------------------------ paths
RECURSIVE Utf8Lossy(_)
\* String::from_utf8_lossy on the bytes this model uses: ASCII bytes are
\* themselves, EF BF BD is U+FFFD, and a byte that starts no valid sequence
\* becomes U+FFFD.  The result is a sequence of code points.
Utf8Lossy(bytes) ==
    IF bytes = <<>> THEN <<>>
    ELSE IF /\ Len(bytes) >= 3
            /\ SubSeq(bytes, 1, 3) = ReplacementUtf8
         THEN ReplacementChar \o Utf8Lossy(SubSeq(bytes, 4, Len(bytes)))
         ELSE IF Head(bytes) < 128
              THEN <<Head(bytes)>> \o Utf8Lossy(Tail(bytes))
              ELSE ReplacementChar \o Utf8Lossy(Tail(bytes))

RECURSIVE AsBytes(_)
\* str::as_bytes: the UTF-8 encoding of a sequence of code points
AsBytes(str) ==
    IF str = <<>> THEN <<>>
    ELSE (IF <<Head(str)>> = ReplacementChar THEN ReplacementUtf8
          ELSE <<Head(str)>>) \o AsBytes(Tail(str))

RECURSIVE Split(_, _)
\* str::split(sep): the pieces between separators, at least one, empty ones kept
Split(str, sep) ==
    IF \A i \in 1..Len(str) : str[i] # sep THEN <<str>>
    ELSE LET i == CHOOSE k \in 1..Len(str) :
                      /\ str[k] = sep
                      /\ \A j \in 1..(k - 1) : str[j] # sep
         IN  <<SubSeq(str, 1, i - 1)>> \o Split(SubSeq(str, i + 1, Len(str)), sep)

RECURSIVE Join(_, _)
\* [&str]::join(sep)
Join(pieces, sep) ==
    IF Len(pieces) = 0 THEN <<>>
    ELSE IF Len(pieces) = 1 THEN pieces[1]
    ELSE pieces[1] \o <<sep>> \o Join(Tail(pieces), sep)

\* ------------------------------------------------------------ object store
\* A tree is a function from entry names (byte sequences) to entries; an
\* object's id is the object itself.
BlobEntry(mode, content) == [kind |-> "blob", mode |-> mode, content |-> content]
TreeEntry(tree) == [kind |-> "tree", mode |-> "040000", tree |-> tree]
EmptyTree == [x \in {} |-> x]
OneEntry(name, entry) == [x \in {name} |-> entry]

\* TreeBuilder::insert(name, id, mode) followed by write()
TreeInsert(tree, name, entry) ==
    [x \in DOMAIN tree \cup {name} |-> IF x = name THEN entry ELSE tree[x]]

\* an object written to the store
BlobObj(content) == [type |-> "blob", content |-> content]
TreeObj(tree) == [type |-> "tree", tree |-> tree]

Ok(tree, written) == [ok |-> TRUE, tree |-> tree, written |-> written]
Err(msg) == [ok |-> FALSE, err |-> msg]

\* ------------------------------------------------------ apply_hunk_to_tree
\* a slip: the removed lines are not skipped
ApplyHunkToBlobKeepRemoved(old_content, hunk) ==
    LET old_start == Anchors(hunk)[1]
        cut  == SkipPastNth(NL, old_content, old_start)
    IN  SubSeq(old_content, 1, cut) \o Flatten(hunk.added.lines)
            \o SubSeq(old_content, cut + 1, Len(old_content))

\* lib.rs 225-244: the bytes handed to the blob writer
ApplyHunkToBlob(old_content, hunk) ==
    LET old_start == Anchors(hunk)[1]
        cut  == SkipPastNth(NL, old_content, old_start)
        pre  == SubSeq(old_content, 1, cut)
        post == SubSeq(old_content, cut + 1, Len(old_content))
        skip == SkipPastNth(NL, post, Len(hunk.removed.lines))
    IN  pre \o Flatten(hunk.added.lines) \o SubSeq(post, skip + 1, Len(post))

RECURSIVE ApplyHunkToTree(_, _, _)
\* fn apply_hunk_to_tree(repo, base, hunk, path) -> Result<Tree, Error>
ApplyHunkToTree(base, hunk, path) ==
    LET path_str == Utf8Lossy(path)
        complex_path == Split(path_str, SLASH)
    IN  IF Len(complex_path) > 1
        THEN LET first == AsBytes(complex_path[1])
                 rest  == Join(Tail(complex_path), SLASH)
             IN  IF first \notin DOMAIN base
                 THEN Err("couldn't find sub tree entry")
                 ELSE IF base[first].kind # "tree"
                 THEN Err("oid is not a tree")
                 ELSE LET sub == ApplyHunkToTree(base[first].tree, hunk, AsBytes(rest))
                      IN  IF ~sub.ok THEN sub
                          ELSE LET t == TreeInsert(base, first,
                                            [base[first] EXCEPT !.tree = sub.tree])
                               IN  Ok(t, sub.written \cup {TreeObj(t)})
        ELSE IF path \notin DOMAIN base
             THEN Err("couldn't find leaf tree entry")
             ELSE IF base[path].kind # "blob"
             THEN Err("object is not a blob")
             ELSE LET new == ApplyHunkToBlob(base[path].content, hunk)
                      t   == TreeInsert(base, path, BlobEntry(base[path].mode, new))
                  IN  Ok(t, {BlobObj(new), TreeObj(t)})

\* --------------------------------------- harness of apply_hunk_to_tree
\* the lines "a\n", "b\n", "x\n", "y\n"
La == <<97, NL>>
Lb == <<98, NL>>
Lx == <<120, NL>>
Ly == <<121, NL>>

\* blobs of at most MaxBlobLines lines, the last one with or without its newline
HarnessBlobs ==
    LET whole == {Flatten(ls) : ls \in SeqsUpTo({La, Lb}, MaxBlobLines)}
    IN  whole \cup {b \o <<97>> : b \in {w \in whole : Len(w) < 2 * MaxBlobLines}}

HarnessHunks ==
    {MkHunk(s, r, s, a) :
        s \in 1..(MaxBlobLines + 1),
        r \in SeqsUpTo({La}, MaxHunkLines),
        a \in {<<>>, <<Lx>>, <<Lx, <<120>>>>}} \ {MkHunk(s, <<>>, s, <<>>) : s \in 1..(MaxBlobLines + 1)}

\* the paths "f", "g", "d/f" and "\xff/f" (a directory whose name is no UTF-8)
PathF == <<102>>
PathG == <<103>>
PathD == <<100>>
PathDF == <<100, SLASH, 102>>
PathBad == <<255>>
PathBadF == <<255, SLASH, 102>>

\* a blob at f, with an executable beside it, a blob at d instead of a
\* directory, and f inside a directory
HarnessTrees(blob) ==
    { TreeInsert(OneEntry(PathF, BlobEntry("100755", blob)), PathG, BlobEntry("100644", La)),
      TreeInsert(OneEntry(PathD, TreeEntry(OneEntry(PathF, BlobEntry("100644", blob)))),
                 PathF, TreeEntry(EmptyTree)),
      OneEntry(PathD, BlobEntry("100644", blob)),
      OneEntry(PathBad, TreeEntry(OneEntry(PathF, BlobEntry("100644", blob)))) }

InitTree ==
    /\ \E blob \in HarnessBlobs, hunk \in HarnessHunks,
          path \in {PathF, PathDF, PathBadF} :
         \E base \in HarnessTrees(blob) :
            tree_call = [pc |-> "call", base |-> base, hunk |-> hunk,
                         path |-> path, blob |-> blob, ret |-> Err("")]
    /\ skip_call = Idle
    /\ commute_call = Idle
    /\ DriverIdle

TreeCall ==
    /\ tree_call.pc = "call"
    /\ tree_call' = [tree_call EXCEPT !.pc = "ret",
            !.ret = ApplyHunkToTree(tree_call.base, tree_call.hunk, tree_call.path)]
    /\ UNCHANGED <<skip_call, commute_call, driver_vars>>

NextTree == TreeCall

SpecTree == InitTree /\ [][NextTree]_vars

\* the prefix of buf up to and including its n-th newline: nothing when
\* n = 0, all of buf when it has fewer than n newlines
ThroughNthNewline(buf, n) ==
    IF n <= 0 THEN <<>>
    ELSE IF CountNL(buf, Len(buf)) < n THEN buf
    ELSE SubSeq(buf, 1, CHOOSE k \in 1..Len(buf) : buf[k] = NL /\ CountNL(buf, k) = n)

\* what is left of buf after ThroughNthNewline(buf, n)
AfterNthNewline(buf, n) ==
    SubSeq(buf, Len(ThroughNthNewline(buf, n)) + 1, Len(buf))

\* the blob that keeps `keep` lines, writes the added lines and skips the
\* removed ones
PatchedBlob(blob, hunk, keep) ==
    ThroughNthNewline(blob, keep) \o Flatten(hunk.added.lines)
        \o AfterNthNewline(AfterNthNewline(blob, keep), Len(hunk.removed.lines))

\* a returned call on a single-segment path that names a blob of the base tree
SingleSegmentCall ==
    /\ tree_call.pc = "ret"
    /\ tree_call.path = PathF
    /\ PathF \in DOMAIN tree_call.base
    /\ tree_call.base[PathF].kind = "blob"

None == [some |-> FALSE]
Some(v) == [some |-> TRUE, v |-> v]

\* net lines a hunk adds
Delta(hunk) == Len(hunk.added.lines) - Len(hunk.removed.lines)

\* a hunk with both start coordinates moved by d
Shift(hunk, d) ==
    [removed |-> Block(hunk.removed.start + d, hunk.removed.lines),
     added   |-> Block(hunk.added.start + d, hunk.added.lines)]

\* H lies entirely above the region E added (case 1; case 3 with h_r <= e_a)
Above(H, E) ==
    H.removed.start + Len(H.removed.lines) <= E.added.start

\* H lies entirely below the region E added (case 2; case 3 otherwise)
Below(H, E) ==
    H.removed.start >= E.added.start + Len(E.added.lines)

\* a slip: a hunk below E keeps its coordinates
CommuteNoShift(H, E) ==
    IF Above(H, E) \/ Below(H, E) THEN Some(H) ELSE None

\* commute(H, E): H moved before the earlier hunk E, or None on a conflict
Commute(H, E) ==
    IF Above(H, E) THEN Some(H)
    ELSE IF Below(H, E) THEN Some(Shift(H, 0 - Delta(E)))
    ELSE None

RECURSIVE CommuteDiffBefore(_, _)
\* commute_diff_before(after, before): after moved before every hunk of a
\* patch, the patch's hunks taken from the last applied to the first
CommuteDiffBefore(after, before) ==
    IF before = <<>> THEN Some(after)
    ELSE LET step == Commute(after, before[Len(before)])
         IN  IF ~step.some THEN None
             ELSE CommuteDiffBefore(step.v, SubSeq(before, 1, Len(before) - 1))

\* ------------------------------------------ harness of the commutation
\* a file of lines with the hunk applied: lines [removed.start,
\* removed.start + len(removed.lines)) replaced by the added lines
ApplyLines(file, hunk) ==
    Slice(file, 1, hunk.removed.start - 1) \o hunk.added.lines
        \o Slice(file, hunk.removed.start + Len(hunk.removed.lines), Len(file))

\* the hunks that apply to a file of lines and add the lines `adds`: the
\* removed lines are the file's, the added side starts `off` lines further
\* down, and the hunk changes something
HunksOn(file, adds, off) ==
    {h \in {MkHunk(s, Slice(file, s, s + n - 1), s + off, a) :
                s \in 1..(Len(file) + 1), n \in 0..MaxHunkLines, a \in adds} :
        /\ Len(h.removed.lines) = Cardinality(
               {i \in 1..Len(file) : /\ i >= h.removed.start
                                      /\ i < h.removed.start + Len(h.removed.lines)})
        /\ h.removed.lines # h.added.lines}

\* whether a hunk applies to a file: its removed lines are the file's
AppliesTo(hunk, file) ==
    /\ hunk.removed.start >= 1
    /\ hunk.removed.start + Len(hunk.removed.lines) <= Len(file) + 1
    /\ hunk.removed.lines =
           Slice(file, hunk.removed.start,
                 hunk.removed.start + Len(hunk.removed.lines) - 1)

InitCommute ==
    /\ \E F \in SeqsUpTo({La, Lb}, MaxFileLines) :
         \E E \in HunksOn(F, SeqsUpTo({Lx}, MaxHunkLines), 0) :
           \E H \in HunksOn(ApplyLines(F, E), SeqsUpTo({Ly}, MaxHunkLines), 0) :
              commute_call = [pc |-> "call", F |-> F, E |-> E, H |-> H, ret |-> None]
    /\ skip_call = Idle
    /\ tree_call = Idle
    /\ DriverIdle

CommuteCall ==
    /\ commute_call.pc = "call"
    /\ commute_call' = [commute_call EXCEPT !.pc = "ret",
                            !.ret = Commute(commute_call.H, commute_call.E)]
    /\ UNCHANGED <<skip_call, tree_call, driver_vars>>

NextCommute == CommuteCall

SpecCommute == InitCommute /\ [][NextCommute]_vars

\* a returned call on two hunks that commute
CommuteReturned == commute_call.pc = "ret" /\ commute_call.ret.some

\* C2, as claimed: when E and H do not conflict, E then H and H' then E
\* give the same bytes, H' = commute(H, E) keeping H's lines, moved by
\* -(e_al - e_rl) when H is below E and not moved when H is above E.
C2_AsClaimed ==
    CommuteReturned =>
        LET F == commute_call.F
            E == commute_call.E
            H == commute_call.H
            Hc == commute_call.ret.v
        IN  /\ Hc = IF Above(H, E) THEN H ELSE Shift(H, 0 - Delta(E))
            /\ Flatten(ApplyLines(ApplyLines(F, E), H))
                   = Flatten(ApplyLines(ApplyLines(F, Hc), E))

\* C2, amended: when E and H do not conflict, H' = commute(H, E) keeps H's
\* lines, is moved by -(e_al - e_rl) when H is below E and not moved when H
\* is above E, applies to F, and E then H gives the same bytes as H' then E',
\* where E' is E moved by H's net line count when H is above E and E itself
\* when H is below E.
C2_CommutationCorrect ==
    CommuteReturned =>
        LET F == commute_call.F
            E == commute_call.E
            H == commute_call.H
            Hc == commute_call.ret.v
            Ec == IF Above(H, E) THEN Shift(E, Delta(H)) ELSE E
        IN  /\ Hc = IF Above(H, E) THEN H ELSE Shift(H, 0 - Delta(E))
            /\ AppliesTo(Hc, F)
            /\ AppliesTo(Ec, ApplyLines(F, Hc))
            /\ Flatten(ApplyLines(ApplyLines(F, E), H))
                   = Flatten(ApplyLines(ApplyLines(F, Hc), Ec))

\* H below an E that changed the line count, so H' is moved
C2_Witness ==
    /\ CommuteReturned
    /\ ~Above(commute_call.H, commute_call.E)
    /\ Delta(commute_call.E) # 0
    /\ Len(commute_call.H.removed.lines) > 0
    /\ commute_call.ret.v # commute_call.H

\* ------------------------------------------------------------ diffs, stack
\* owned::Patch
Patch(old_path, new_path, status, hunks) ==
    [old_path |-> old_path, new_path |-> new_path, status |-> status,
     hunks |-> hunks]

\* Diff::by_new(path): the patch whose new_path is path, if any
ByNew(diff, path) ==
    IF \E i \in 1..Len(diff) : diff[i].new_path = path
    THEN Some(diff[CHOOSE i \in 1..Len(diff) :
                      /\ diff[i].new_path = path
                      /\ \A j \in 1..(i - 1) : diff[j].new_path # path])
    ELSE None

\* the tokens of a text: a 40-hex object id, or any other word
Oid(n) == [oid |-> n]
Word(w) == [word |-> w]
IsOid(token) == DOMAIN token = {"oid"}

\* ------------------------------------------------- repositories run meets
\* The history of one file is built commit by commit from the edits made to
\* it, so that every diff of the stack and the index diff are the diffs of
\* the trees they lie between.
NoFile == [present |-> FALSE]
File(name, lines) == [present |-> TRUE, name |-> name, lines |-> lines]

PathOther == <<104>>      \* "h", a file no index hunk touches
PathN == <<110>>          \* "n" and "m": a file renamed and edited in the index
PathM == <<109>>
StartLines == <<La, Lb, La>>
FileNames == {PathF, PathDF, PathBadF}

Replace(lines, s, new) == MkHunk(s, <<lines[s]>>, s, <<new>>)
InsertAt(s, new) == MkHunk(s, <<>>, s, <<new>>)
DeleteAt(lines, s) == MkHunk(s, <<lines[s]>>, s, <<>>)

\* lists of hunks of one patch: the added side of each hunk starts where the
\* hunks above it have moved its lines to
TwoHunks(first, second) ==
    <<first, [second EXCEPT !.added.start = second.removed.start + Delta(first)]>>

Step(diff, summary, file) == [diff |-> diff, summary |-> summary, file |-> file]

\* a commit that changes another file only
OtherStep(file) ==
    Step(<<Patch(PathOther, PathOther, "Modified", <<Replace(<<La>>, 1, Lx)>>)>>,
         Some(<<Word("other")>>), file)

\* an edit of the file, as the commit that makes it
EditStep(file, hunk, summary) ==
    Step(<<Patch(file.name, file.name, "Modified", <<hunk>>)>>, summary,
         File(file.name, ApplyLines(file.lines, hunk)))

\* the commits that can come on top of a file's state: the file is added;
\* or a line of it is replaced (by a commit that is itself a fixup), a line
\* is inserted at its top (by a commit with no message), its first line is
\* deleted, its first and its last line are replaced, it is renamed to g
\* without a change, or another file changes
Steps(file) ==
    IF ~file.present
    THEN {Step(<<Patch(PathF, PathF, "Added", <<MkHunk(0, <<>>, 1, StartLines)>>)>>,
               Some(<<Word("add")>>), File(PathF, StartLines)),
          OtherStep(file)}
    ELSE {EditStep(file, Replace(file.lines, s, Lx),
                   Some(<<Word("fixup!"), Oid(0), Word("edit")>>)) :
              s \in {i \in 1..Len(file.lines) : file.lines[i] # Lx}}
         \cup {EditStep(file, InsertAt(1, Lx), None)}
         \cup {EditStep(file, DeleteAt(file.lines, 1), Some(<<Word("delete")>>)) :
                  x \in {y \in {1} : Len(file.lines) >= 2}}
         \cup {Step(<<Patch(file.name, PathG, "Renamed", <<>>)>>,
                    Some(<<Word("rename")>>), File(PathG, file.lines)) :
                  x \in {y \in {1} : file.name # PathG}}
         \cup {Step(<<Patch(file.name, file.name, "Modified",
                          TwoHunks(Replace(file.lines, 1, Lx),
                                   Replace(file.lines, Len(file.lines), Lx)))>>,
                    Some(<<Word("edit"), Word("twice")>>),
                    File(file.name,
                         ApplyLines(ApplyLines(file.lines,
                                               Replace(file.lines, 1, Lx)),
                                    Replace(file.lines, Len(file.lines), Lx)))) :
                  x \in {y \in {1} : /\ Len(file.lines) >= 3
                                     /\ file.lines[1] # Lx
                                     /\ file.lines[Len(file.lines)] # Lx}}
         \cup {OtherStep(file)}

RECURSIVE Histories(_)
\* the histories of at most n commits: the stack, newest first, and the file
Histories(n) ==
    IF n = 0
    THEN {[stack |-> <<>>, file |-> f] :
             f \in {NoFile} \cup {File(name, StartLines) : name \in FileNames}}
    ELSE LET shorter == Histories(n - 1)
         IN  shorter \cup
             UNION {{[stack |-> <<[id |-> Oid(n), summary |-> st.summary,
                                   diff |-> st.diff]>> \o h.stack,
                      file |-> st.file] : st \in Steps(h.file)} :
                        h \in {g \in shorter : Len(g.stack) = n - 1}}

\* the hunk lists the index can hold for a file: one edit, or an edit of the
\* top and a replacement of the last line, an unchanged line between them
IndexHunks(lines) ==
    LET n == Len(lines)
        tops == {Replace(lines, 1, Ly), InsertAt(1, Ly)}
                    \cup {DeleteAt(lines, 1) : x \in {y \in {1} : n >= 2}}
        singles == tops \cup {InsertAt(n + 1, Ly)}
                        \cup {Replace(lines, s, Ly) : s \in 2..n}
    IN  {<<h>> : h \in singles}
        \cup {TwoHunks(t, Replace(lines, n, Ly)) :
                 t \in {u \in tops : n >= 3}}

\* a patch run does not absorb: n renamed to m with two of its lines edited
RenamedInIndex ==
    Patch(PathN, PathM, "Renamed",
          TwoHunks(Replace(StartLines, 1, Ly), Replace(StartLines, 3, Ly)))

RECURSIVE ApplyAll(_, _)
\* a file of lines with all hunks of a patch applied, the lowest first
ApplyAll(lines, hunks) ==
    IF hunks = <<>> THEN lines
    ELSE ApplyAll(ApplyLines(lines, hunks[Len(hunks)]),
                  SubSeq(hunks, 1, Len(hunks) - 1))

\* the index diffs over a file's state in HEAD, with what the index holds
Indexes(file) ==
    {[index |-> <<>>, staged |-> Idle],
     [index |-> <<RenamedInIndex>>, staged |-> Idle]}
    \cup
    (IF ~file.present THEN {}
     ELSE LET mod(hs) == Patch(file.name, file.name, "Modified", hs)
              st(hs) == [path |-> file.name,
                         content |-> Flatten(ApplyAll(file.lines, hs))]
          IN  {[index |-> <<mod(hs)>>, staged |-> st(hs)] :
                  hs \in IndexHunks(file.lines)}
              \cup {[index |-> <<RenamedInIndex, mod(hs)>>, staged |-> st(hs)] :
                  hs \in {<<Replace(file.lines, 1, Ly)>>}})

RECURSIVE PutFile(_, _, _)
\* a tree with a blob at the path made of the segments
PutFile(tree, segments, entry) ==
    IF Len(segments) = 1 THEN TreeInsert(tree, segments[1], entry)
    ELSE LET sub == IF segments[1] \in DOMAIN tree THEN tree[segments[1]].tree
                    ELSE EmptyTree
         IN  TreeInsert(tree, segments[1],
                        TreeEntry(PutFile(sub, Tail(segments), entry)))

RECURSIVE GetFile(_, _)
\* the entry at the path made of the segments, or None
GetFile(tree, segments) ==
    IF segments[1] \notin DOMAIN tree THEN None
    ELSE IF Len(segments) = 1 THEN Some(tree[segments[1]])
    ELSE IF tree[segments[1]].kind # "tree" THEN None
    ELSE GetFile(tree[segments[1]].tree, Tail(segments))

\* HEAD's tree: the other files, and the file when it is there
HeadTree(file) ==
    LET others == TreeInsert(OneEntry(PathOther, BlobEntry("100644", Lx)),
                             PathN, BlobEntry("100644", Flatten(StartLines)))
    IN  IF ~file.present THEN others
        ELSE PutFile(others, Split(file.name, SLASH),
                     BlobEntry("100755", Flatten(file.lines)))

\* HEAD's commit: the newest of the stack, or the base
HeadCommit(stk) == IF stk = <<>> THEN Oid(0) ELSE stk[1].id

\* ------------------------------------------------------------------- run
\* lib.rs 22-71: the repository is opened, the stack and the index parsed
Init ==
    /\ skip_call = Idle /\ tree_call = Idle /\ commute_call = Idle
    /\ dry_run \in BOOLEAN
    /\ \E h \in Histories(MaxStack) :
         /\ stack = h.stack
         /\ \E ix \in Indexes(h.file) :
              /\ index = ix.index
              /\ staged = ix.staged
         /\ head_tree = HeadTree(h.file)
    /\ head_commit = HeadCommit(stack)
    /\ head_ref = HeadCommit(stack)
    /\ commits = <<>>
    /\ store_writes = {}
    /\ pc = "patch"
    /\ patch_i = 1 /\ hunk_i = 1 /\ stack_i = 1
    /\ commuted_index_hunk = Idle
    /\ commuted_old_path = <<>>
    /\ dest_commit = None
    /\ result = "running"
    /\ log = <<>> /\ trail = <<>> /\ outcomes = <<>> /\ first_log = <<>>
    /\ execution = 1

\* the patch and the hunk the loops stand at
IndexPatch == index[patch_i]
IndexHunk == index[patch_i].hunks[hunk_i]
AtHunk ==
    /\ pc = "patch"
    /\ patch_i <= Len(index)
    /\ hunk_i <= Len(IndexPatch.hunks)

\* format!("-{},{} +{},{}", ...)
Header(hunk) ==
    <<"-", hunk.removed.start, ",", Len(hunk.removed.lines),
      " +", hunk.added.start, ",", Len(hunk.added.lines)>>

\* a slip: every patch that is not a deletion is absorbed
AbsorbableNotDeleted(status) == status # "Deleted"

\* lib.rs 76: only a Modified patch is absorbed
Absorbable(status) == status = "Modified"

\* a slip: an added file is commuted with like any other patch
IsAdditionNever(patch) == FALSE

\* lib.rs 111: the commit created the file
IsAddition(patch) == patch.status = "Added"

\* a slip: the walk keeps the name the file has after the rename
PathBeforeKept(path, patch) == path

\* lib.rs 116-121: the name the file had before the commit
PathBefore(path, patch) ==
    IF path # patch.old_path THEN patch.old_path ELSE path

\* a slip: the fixup names the commit it is made on
FixupMessageOfHead(dest, head) ==
    <<Word("fixup!"), head>> \o (IF dest.summary.some THEN dest.summary.v
                           ELSE <<Word("<no message>")>>)

\* lib.rs 158-159: format!("fixup! {} {}", dest.id(), dest.summary()...)
FixupMessage(dest, head) ==
    <<Word("fixup!"), dest.id>> \o (IF dest.summary.some THEN dest.summary.v
                              ELSE <<Word("<no message>")>>)

\* a slip: a dry run commits as well
WritesNever(dry) == TRUE

\* lib.rs 151: whether the fixup is written
Writes(dry) == ~dry

\* a slip: the fixup is made on the commit run started at
FixupParentsOfStart(head) == <<HeadCommit(stack)>>

\* lib.rs 161: the fixup's parents
FixupParents(head) == <<head>>

\* the id of the next commit written
NextOid == Oid(Len(stack) + Len(commits) + 1)

\* where a call to the object store may fail while a fixup is made:
\* nowhere, in the tree patcher (lib.rs 189), in repo.commit (lib.rs 154)
\* or in the find_commit that reads the new commit back (lib.rs 154)
StoreFaults == {"none", "treebuilder", "commit", "find_commit"}

Outcome(kind, tree_after, commit_after) ==
    [patch |-> patch_i, hunk |-> hunk_i, status |-> IndexPatch.status,
     dest |-> dest_commit, kind |-> kind, error |-> "",
     tree_before |-> head_tree, tree_after |-> tree_after,
     commit_before |-> head_commit, commit_after |-> commit_after]

Visit(verdict) ==
    [at |-> stack_i, path |-> commuted_old_path,
     hunk |-> commuted_index_hunk, verdict |-> verdict]

NextHunkOf(o) ==
    /\ outcomes' = Append(outcomes, o)
    /\ hunk_i' = hunk_i + 1
    /\ pc' = "patch"

\* lib.rs 73, 180: no patch is left
RunDone ==
    /\ pc = "patch"
    /\ patch_i > Len(index)
    /\ pc' = "done"
    /\ result' = "ok"
    /\ UNCHANGED <<harness_vars, input_vars, repo_vars, observer_vars,
                   patch_i, hunk_i, stack_i, commuted_index_hunk,
                   commuted_old_path, dest_commit, head_tree, head_commit>>

\* lib.rs 73-74: no hunk of the patch is left
NextPatch ==
    /\ pc = "patch"
    /\ patch_i <= Len(index)
    /\ hunk_i > Len(IndexPatch.hunks)
    /\ patch_i' = patch_i + 1
    /\ hunk_i' = 1
    /\ UNCHANGED <<harness_vars, input_vars, repo_vars, observer_vars,
                   pc, stack_i, commuted_index_hunk, commuted_old_path,
                   dest_commit, head_tree, head_commit, result>>

\* lib.rs 75-82: the patch is not Modified
SkipPatch ==
    /\ AtHunk
    /\ ~Absorbable(IndexPatch.status)
    /\ commuted_index_hunk' = IndexHunk
    /\ log' = Append(log, [msg |-> "skipped non-modified hunk",
                           path |-> IndexPatch.new_path,
                           status |-> IndexPatch.status])
    /\ outcomes' = Append(outcomes,
           [Outcome("skipped", head_tree, head_commit) EXCEPT !.dest = None])
    /\ patch_i' = patch_i + 1
    /\ hunk_i' = 1
    /\ UNCHANGED <<harness_vars, input_vars, repo_vars, pc, stack_i,
                   commuted_old_path, dest_commit, head_tree, head_commit,
                   result, trail, first_log, execution>>

\* lib.rs 75-97: the walk of a hunk of a Modified patch begins
BeginHunk ==
    /\ AtHunk
    /\ Absorbable(IndexPatch.status)
    /\ commuted_index_hunk' = IndexHunk
    /\ commuted_old_path' = IndexPatch.old_path
    /\ log' = Append(log, [msg |-> "commuting hunk",
                           path |-> IndexPatch.old_path,
                           header |-> Header(IndexHunk)])
    /\ dest_commit' = None
    /\ stack_i' = 1
    /\ trail' = <<>>
    /\ pc' = "commit"
    /\ UNCHANGED <<harness_vars, input_vars, repo_vars, patch_i, hunk_i,
                   head_tree, head_commit, result, outcomes, first_log,
                   execution>>

AtCommit ==
    /\ pc = "commit"
    /\ stack_i <= Len(stack)

NextPatchOf == ByNew(stack[stack_i].diff, commuted_old_path)

\* lib.rs 101-110: the commit does not touch the file
SkipCommit ==
    /\ AtCommit
    /\ ~NextPatchOf.some
    /\ log' = Append(log, [msg |-> "skipped commit with no path",
                           commit |-> stack[stack_i].id])
    /\ trail' = Append(trail, Visit("no path"))
    /\ stack_i' = stack_i + 1
    /\ UNCHANGED <<harness_vars, input_vars, repo_vars, pc, patch_i, hunk_i,
                   commuted_index_hunk, commuted_old_path, dest_commit,
                   head_tree, head_commit, result, outcomes, first_log,
                   execution>>

\* lib.rs 111-115: the commit added the file
FoundByAdd ==
    /\ AtCommit
    /\ NextPatchOf.some
    /\ IsAddition(NextPatchOf.v)
    /\ log' = Append(log, [msg |-> "found noncommutative commit by add",
                           commit |-> stack[stack_i].id])
    /\ trail' = Append(trail, Visit("add"))
    /\ dest_commit' = Some(stack_i)
    /\ pc' = "dest"
    /\ UNCHANGED <<harness_vars, input_vars, repo_vars, patch_i, hunk_i,
                   stack_i, commuted_index_hunk, commuted_old_path,
                   head_tree, head_commit, result, outcomes, first_log,
                   execution>>

\* the events of lib.rs 116-121
RenameLog ==
    IF commuted_old_path # PathBefore(commuted_old_path, NextPatchOf.v)
    THEN <<[msg |-> "changed commute path", commit |-> stack[stack_i].id,
            path |-> NextPatchOf.v.old_path]>>
    ELSE <<>>

\* lib.rs 116-131: the hunk commutes with the commit's patch
CommutedPast ==
    /\ AtCommit
    /\ NextPatchOf.some
    /\ ~IsAddition(NextPatchOf.v)
    /\ LET c == CommuteDiffBefore(commuted_index_hunk, NextPatchOf.v.hunks)
       IN  /\ c.some
           /\ commuted_index_hunk' = c.v
           /\ log' = log \o RenameLog \o
                  <<[msg |-> "commuted hunk with commit",
                     commit |-> stack[stack_i].id,
                     offset |-> c.v.added.start - commuted_index_hunk.added.start]>>
    /\ commuted_old_path' = PathBefore(commuted_old_path, NextPatchOf.v)
    /\ trail' = Append(trail, Visit("commuted"))
    /\ stack_i' = stack_i + 1
    /\ UNCHANGED <<harness_vars, input_vars, repo_vars, pc, patch_i, hunk_i,
                   dest_commit, head_tree, head_commit, result, outcomes,
                   first_log, execution>>

\* lib.rs 116-125, 134-138: a hunk of the commit's patch is in the way
FoundByConflict ==
    /\ AtCommit
    /\ NextPatchOf.some
    /\ ~IsAddition(NextPatchOf.v)
    /\ ~CommuteDiffBefore(commuted_index_hunk, NextPatchOf.v.hunks).some
    /\ commuted_old_path' = PathBefore(commuted_old_path, NextPatchOf.v)
    /\ log' = log \o RenameLog \o
           <<[msg |-> "found noncommutative commit by conflict",
              commit |-> stack[stack_i].id]>>
    /\ trail' = Append(trail, Visit("conflict"))
    /\ dest_commit' = Some(stack_i)
    /\ pc' = "dest"
    /\ UNCHANGED <<harness_vars, input_vars, repo_vars, patch_i, hunk_i,
                   stack_i, commuted_index_hunk, head_tree, head_commit,
                   result, outcomes, first_log, execution>>

\* lib.rs 97, 140: the stack is exhausted
EndOfStack ==
    /\ pc = "commit"
    /\ stack_i > Len(stack)
    /\ pc' = "dest"
    /\ UNCHANGED <<harness_vars, input_vars, repo_vars, observer_vars,
                   patch_i, hunk_i, stack_i, commuted_index_hunk,
                   commuted_old_path, dest_commit, head_tree, head_commit,
                   result>>

\* lib.rs 141-149: the hunk commutes with every commit of the stack
NoDestination ==
    /\ pc = "dest"
    /\ ~dest_commit.some
    /\ log' = Append(log, [msg |-> "could not find noncommutative commit"])
    /\ NextHunkOf(Outcome("no destination", head_tree, head_commit))
    /\ UNCHANGED <<harness_vars, input_vars, repo_vars, patch_i, stack_i,
                   commuted_index_hunk, commuted_old_path, dest_commit,
                   head_tree, head_commit, result, trail, first_log,
                   execution>>

\* lib.rs 166-176: a dry run logs the fixup it would write
WouldCommit ==
    /\ pc = "dest"
    /\ dest_commit.some
    /\ ~Writes(dry_run)
    /\ log' = Append(log, [msg |-> "would have committed",
                           fixup |-> stack[dest_commit.v].id,
                           header |-> Header(IndexHunk)])
    /\ NextHunkOf(Outcome("would have committed", head_tree, head_commit))
    /\ UNCHANGED <<harness_vars, input_vars, repo_vars, patch_i, stack_i,
                   commuted_index_hunk, commuted_old_path, dest_commit,
                   head_tree, head_commit, result, trail, first_log,
                   execution>>

\* run returns the error of a `?`
Fail(kind, error, tree_after) ==
    /\ result' = "err"
    /\ pc' = "done"
    /\ outcomes' = Append(outcomes,
           [Outcome(kind, tree_after, head_commit) EXCEPT !.error = error])
    /\ UNCHANGED <<hunk_i, log>>

\* lib.rs 151-165: the fixup is written
Commit ==
    /\ pc = "dest"
    /\ dest_commit.some
    /\ Writes(dry_run)
    /\ \E fault \in StoreFaults :
         LET applied == IF fault = "treebuilder" THEN Err("object store")
                        ELSE ApplyHunkToTree(head_tree, IndexHunk,
                                             IndexPatch.old_path)
             new == [id |-> NextOid,
                     parents |-> FixupParents(head_commit),
                     tree |-> applied.tree,
                     message |-> FixupMessage(stack[dest_commit.v], head_commit)]
         IN  IF ~applied.ok
             THEN /\ Fail("error in apply_hunk_to_tree", applied.err, head_tree)
                  /\ UNCHANGED <<head_tree, head_commit, repo_vars>>
             ELSE /\ head_tree' = applied.tree
                  /\ store_writes' = store_writes \cup applied.written
                  /\ IF fault = "commit"
                     THEN /\ Fail("error in commit", "object store", applied.tree)
                          /\ UNCHANGED <<head_commit, head_ref, commits>>
                     ELSE /\ commits' = Append(commits, new)
                          /\ head_ref' = new.id
                          /\ IF fault = "find_commit"
                             THEN /\ Fail("error in find_commit", "object store", applied.tree)
                                  /\ UNCHANGED head_commit
                             ELSE /\ head_commit' = new.id
                                  /\ log' = Append(log, [msg |-> "committed",
                                                         commit |-> new.id])
                                  /\ NextHunkOf(Outcome("committed", applied.tree,
                                                        new.id))
                                  /\ UNCHANGED result
    /\ UNCHANGED <<harness_vars, input_vars, patch_i, stack_i,
                   commuted_index_hunk, commuted_old_path, dest_commit,
                   trail, first_log, execution>>

\* run is executed once more on a repository the first execution left as it
\* found it: it reads the same stack and the same index diff
Rerun ==
    /\ pc = "done"
    /\ result = "ok"
    /\ execution = 1
    /\ commits = <<>> /\ store_writes = {} /\ head_ref = HeadCommit(stack)
    /\ execution' = 2
    /\ first_log' = log
    /\ log' = <<>> /\ trail' = <<>> /\ outcomes' = <<>>
    /\ pc' = "patch"
    /\ patch_i' = 1 /\ hunk_i' = 1 /\ stack_i' = 1
    /\ commuted_index_hunk' = Idle
    /\ commuted_old_path' = <<>>
    /\ dest_commit' = None
    /\ result' = "running"
    /\ UNCHANGED <<harness_vars, input_vars, repo_vars, head_tree, head_commit>>

Next ==
    \/ RunDone \/ NextPatch \/ SkipPatch \/ BeginHunk
    \/ SkipCommit \/ FoundByAdd \/ CommutedPast \/ FoundByConflict \/ EndOfStack
    \/ NoDestination \/ WouldCommit \/ Commit
    \/ Rerun

Spec == Init /\ [][Next]_vars

\* ------------------------------------------------------- the stack walk
\* the path and the hunk the walk holds after its j-th visit
PathAfter(j) == IF j < Len(trail) THEN trail[j + 1].path ELSE commuted_old_path
HunkAfter(j) == IF j < Len(trail) THEN trail[j + 1].hunk ELSE commuted_index_hunk

\* the j-th entry visited does not hold the hunk back: its diff has no patch
\* for the path, or the hunk commutes with the patch, and the walk goes on
\* with the translated hunk under the patch's old path
PassedOver(j) ==
    LET np == ByNew(stack[j].diff, trail[j].path)
    IN  IF ~np.some
        THEN /\ PathAfter(j) = trail[j].path
             /\ HunkAfter(j) = trail[j].hunk
        ELSE /\ np.v.status # "Added"
             /\ CommuteDiffBefore(trail[j].hunk, np.v.hunks).some
             /\ HunkAfter(j) = CommuteDiffBefore(trail[j].hunk, np.v.hunks).v
             /\ PathAfter(j) = np.v.old_path

\* the j-th entry visited holds the hunk back: its patch for the path adds
\* the file or has a hunk the translated hunk does not commute with
HeldBack(j) ==
    LET np == ByNew(stack[j].diff, trail[j].path)
    IN  /\ np.some
        /\ \/ np.v.status = "Added"
           \/ ~CommuteDiffBefore(trail[j].hunk, np.v.hunks).some

\* C1: when the walk of a hunk of a Modified patch ends, the entries visited
\* are the stack's first ones, newest first, starting with the index hunk
\* under the patch's old path; the destination is the last entry visited and
\* is the first whose patch for the current path is Added or has a hunk the
\* translated hunk cannot commute with; every entry before it had no patch
\* for the current path or was commuted past; with no destination the whole
\* stack was passed over.
C1_DestinationIsFirstBlocker ==
    pc = "dest" =>
        /\ IndexPatch.status = "Modified"
        /\ \A j \in 1..Len(trail) : trail[j].at = j
        /\ Len(trail) >= 1 =>
               /\ trail[1].hunk = IndexHunk
               /\ trail[1].path = IndexPatch.old_path
        /\ IF dest_commit.some
           THEN /\ dest_commit.v = Len(trail)
                /\ dest_commit.v \in 1..Len(stack)
                /\ HeldBack(dest_commit.v)
                /\ \A j \in 1..(dest_commit.v - 1) : PassedOver(j)
           ELSE /\ Len(trail) = Len(stack)
                /\ \A j \in 1..Len(stack) : PassedOver(j)

\* the second entry of the stack is the destination, by a conflict with the
\* hunk as the first entry's patch translated it
C1_Witness ==
    /\ pc = "dest"
    /\ dest_commit = Some(2)
    /\ trail[1].verdict = "commuted"
    /\ trail[2].verdict = "conflict"
    /\ trail[2].hunk # trail[1].hunk

\* A adds f, B renames f to g without a change, the index modifies g
RenameScenario ==
    /\ Len(stack) = 2
    /\ stack[1].diff = <<Patch(PathF, PathG, "Renamed", <<>>)>>
    /\ ByNew(stack[2].diff, PathF).some
    /\ ByNew(stack[2].diff, PathF).v.status = "Added"
    /\ pc \in {"commit", "dest"}
    /\ IndexPatch.status = "Modified"
    /\ IndexPatch.old_path = PathG

IsEmitted(o) == o.kind \in {"committed", "error in find_commit"}
IsError(o) ==
    o.kind \in {"error in apply_hunk_to_tree", "error in commit",
                "error in find_commit"}
Emitted == SelectSeq(outcomes, IsEmitted)

\* the number of 40-hex ids among the tokens of a text
OidCount(text) == Cardinality({i \in 1..Len(text) : IsOid(text[i])})

StackIds == {stack[i].id : i \in 1..Len(stack)}

\* C3, as claimed: every fixup's message holds exactly one 40-hex id, the id
\* of the commit of the stack chosen as the hunk's destination.
C3_AsClaimed ==
    /\ Len(commits) = Len(Emitted)
    /\ \A i \in 1..Len(commits) :
          /\ OidCount(commits[i].message) = 1
          /\ \E k \in 1..Len(commits[i].message) :
                /\ IsOid(commits[i].message[k])
                /\ commits[i].message[k] = stack[Emitted[i].dest.v].id

\* C3, amended: every fixup's message is "fixup! ", the 40-hex id of the
\* commit of the stack chosen as the hunk's destination, and that commit's
\* summary ("<no message>" when it has none); it holds that id and, beyond
\* it, only the 40-hex ids the summary holds.
C3_FixupTargetsDestination ==
    /\ Len(commits) = Len(Emitted)
    /\ \A i \in 1..Len(commits) :
          LET m == commits[i].message
              dest == stack[Emitted[i].dest.v]
              summary == IF dest.summary.some THEN dest.summary.v
                         ELSE <<Word("<no message>")>>
          IN  /\ Emitted[i].dest.some
              /\ m[1] = Word("fixup!")
              /\ m[2] = dest.id
              /\ m[2] \in StackIds
              /\ SubSeq(m, 3, Len(m)) = summary
              /\ OidCount(m) = 1 + OidCount(summary)

\* two fixups, one onto a commit with no message
C3_Witness ==
    /\ Len(commits) = 2
    /\ \E i \in 1..2 : commits[i].message[3] = Word("<no message>")
    /\ \E i \in 1..2 : OidCount(commits[i].message) = 1

\* C4: a dry run writes no blob, tree or commit and leaves head_tree,
\* head_commit and HEAD as they are in every step; and the second of two
\* dry runs on a repository logs what the first logged.
C4_DryRunIdempotent ==
    /\ [](dry_run /\ execution = 2 /\ pc = "done" => log = first_log)
    /\ [](dry_run => commits = <<>> /\ store_writes = {})
    /\ [][dry_run => UNCHANGED <<head_tree, head_commit, head_ref, commits,
                                 store_writes>>]_vars

\* the second dry run has ended, having logged two fixups it would write
C4_Witness ==
    /\ dry_run /\ execution = 2 /\ pc = "done"
    /\ Cardinality({i \in 1..Len(log) : log[i].msg = "would have committed"}) = 2
    /\ log = first_log

\* the hunks run works on when nothing fails: every hunk of a Modified
\* patch, and the first hunk of any other patch
Work ==
    UNION {{<<p, h>> : h \in {k \in 1..Len(index[p].hunks) :
                                 index[p].status # "Modified" => k = 1}} :
              p \in 1..Len(index)}

ChainOnHead ==
    /\ \A i \in 1..Len(commits) :
          commits[i].parents =
              <<IF i = 1 THEN HeadCommit(stack) ELSE commits[i - 1].id>>
    /\ head_ref = IF commits = <<>> THEN HeadCommit(stack)
                  ELSE commits[Len(commits)].id

Committed(o) == o.kind = "committed"

\* C6, as claimed: when making the fixup of a hunk fails, run returns the
\* error, no commit exists for that hunk or a later one, and the fixups of
\* the earlier hunks are a chain on HEAD.
C6_AsClaimed ==
    result = "err" =>
        /\ pc = "done"
        /\ IsError(outcomes[Len(outcomes)])
        /\ Len(commits) = Len(SelectSeq(outcomes, Committed))
        /\ ChainOnHead

\* C6, amended: when making the fixup of a hunk fails, run returns the error
\* and does nothing more; no commit exists for a later hunk, and none for
\* that hunk unless the call that failed is the find_commit reading back the
\* commit repo.commit had just written, which then exists and is HEAD; the
\* commits written are a chain on HEAD, each with the head commit before it
\* as its single parent.
C6_ErrorKeepsEarlierFixups ==
    result = "err" =>
        /\ pc = "done"
        /\ ~ENABLED Next
        /\ IsError(outcomes[Len(outcomes)])
        /\ \A i \in 1..(Len(outcomes) - 1) : ~IsError(outcomes[i])
        /\ Len(commits) = Len(SelectSeq(outcomes, Committed))
               + (IF outcomes[Len(outcomes)].kind = "error in find_commit"
                  THEN 1 ELSE 0)
        /\ ChainOnHead

\* the second fixup of a run fails in the tree patcher, the first stays
C6_Witness ==
    /\ result = "err"
    /\ Len(commits) = 1
    /\ outcomes[1].kind = "committed"
    /\ outcomes[2].kind = "error in apply_hunk_to_tree"
    /\ head_ref = commits[1].id

\* every hunk of the Modified patch found a destination and run ended well
AllAbsorbed ==
    /\ pc = "done" /\ result = "ok" /\ ~dry_run
    /\ staged # Idle
    /\ \A i \in 1..Len(outcomes) :
          outcomes[i].status = "Modified" => outcomes[i].kind = "committed"

\* C10: after a run that is not dry in which every hunk of a Modified patch
\* found a destination, the file in the final head_tree is the file as the
\* index holds it.
C10_AsClaimed ==
    AllAbsorbed =>
        /\ GetFile(head_tree, Split(staged.path, SLASH)).some
        /\ GetFile(head_tree, Split(staged.path, SLASH)).v.content
               = staged.content

====
